---- MODULE Spec2Model ----
(***************************************************************************)
(* Model of src/install.rs: the install driver (InstallMethod::install),   *)
(* the dispatcher (InstallMethod::run), the tarball strategy               *)
(* (InstallMethod::tar_gz) and uninstall, acting on one target path and    *)
(* one update-hash file.  The collaborators the unit calls (utils::*,      *)
(* Components, TarGzPackage, Transaction, dist::update_from_dist,          *)
(* Toolchain) are modelled from their contracts.                           *)
(***************************************************************************)
EXTENDS Integers, Sequences, FiniteSets, TLC

VARIABLES
    path,              \* content found at the target path
    hashFile,          \* content of the update-hash file
    remote,            \* fingerprint of the state the channel currently serves
    pc,                \* position of the caller / of the running call
    call,              \* the operation in progress and its InstallMethod
    previous_version,  \* install(): local `previous_version`
    run_result,        \* value run() returns to install()
    result,            \* value the operation returns to the caller
    tx,                \* tar_gz(): the Transaction `tx`
    idx,               \* tar_gz(): position of the loop over package.components()
    dist_args,         \* arguments update_from_dist received in this run
    log,               \* steps and notifications of the call, in order
    pre,               \* history: path when the call began
    preHash,           \* history: hash file when the call began
    last,              \* history: the install that returned last, if nothing happened since
    repeat,            \* history: this call repeats the install that returned last
    onlyDist,          \* history: only Dist installs naming the hash file have run so far
    applied,           \* history: fingerprint the updater applied last
    recorded           \* history: fingerprint applied by the last run that returned changed

vars == << path, hashFile, remote, pc, call, previous_version, run_result, result,
           tx, idx, dist_args, log, pre, preHash, last, repeat, onlyDist, applied, recorded >>

----------------------------------------------------------------------------
(* Bounds *)

NumSources == 2
NumHashes == 2
MaxComps == 2

Sources == 1 .. NumSources
Hashes == 1 .. NumHashes
Comps == 1 .. MaxComps

(* Option::None of the hash, the date and the version *)
NoHash == 0
NoDate == 0
NoVersion == 0

(* Packages: ordered sequences of distinct components *)
Packages ==
    { s \in UNION { [1 .. n -> Comps] : n \in 0 .. MaxComps } :
        \A i, j \in DOMAIN s : i # j => s[i] # s[j] }

----------------------------------------------------------------------------
(* Content of the target path *)

Content(kind, src, comps, hash) ==
    [kind |-> kind, src |-> src, comps |-> comps, hash |-> hash]

Absent == Content("absent", 0, << >>, NoHash)

CopyOf(s) == Content("copy", s, << >>, NoHash)

LinkTo(s) == Content("link", s, << >>, NoHash)

Installed(comps) == Content("pkg", 0, comps, NoHash)

DistState(h) == Content("dist", 0, << >>, h)

Exists(p) == p.kind # "absent"

(* Toolchain::rustc_version: the version of the toolchain found at the path *)
RustcVersion(p) ==
    CASE p.kind \in {"copy", "link"} -> p.src
      [] p.kind = "dist" -> 10 + p.hash
      [] p.kind = "pkg" -> 20 + Len(p.comps)
      [] OTHER -> NoVersion

(* Date of the distribution state with fingerprint h *)
Date(h) == h

----------------------------------------------------------------------------
(* InstallMethod *)

Method(kind, src, pkg, uh, force, down, ex, od) ==
    [kind |-> kind, src |-> src, pkg |-> pkg, update_hash |-> uh,
     force_update |-> force, allow_downgrade |-> down, exists |-> ex,
     old_date |-> od, profile |-> "default", desc |-> "nightly",
     components |-> << >>, targets |-> << >>]

Copy(s) == Method("Copy", s, << >>, FALSE, FALSE, FALSE, FALSE, NoDate)

Link(s) == Method("Link", s, << >>, FALSE, FALSE, FALSE, FALSE, NoDate)

Installer(pkg) == Method("Installer", 0, pkg, FALSE, FALSE, FALSE, FALSE, NoDate)

Dist(uh, force, down, ex, od) == Method("Dist", 0, << >>, uh, force, down, ex, od)

NoMethod == Method("none", 0, << >>, FALSE, FALSE, FALSE, FALSE, NoDate)

(* Extra components and extra targets a Dist install can ask for *)
Extras ==
    { [components |-> << >>, targets |-> << >>],
      [components |-> << "rust-src" >>, targets |-> << "wasm32" >>] }

(* The methods a caller can pass when the target path holds p: `exists` and
   `old_date` describe the toolchain currently installed there. *)
Methods(p) ==
    { Copy(s) : s \in Sources } \cup { Link(s) : s \in Sources }
    \cup { Installer(pkg) : pkg \in Packages }
    \cup { [Dist(uh, f, d, Exists(p), IF p.kind = "dist" THEN Date(p.hash) ELSE NoDate)
               EXCEPT !.components = x.components, !.targets = x.targets] :
             uh \in BOOLEAN, f \in BOOLEAN, d \in BOOLEAN, x \in Extras }

(* The same install request, whatever the path held when it was made *)
Request(m) == [m EXCEPT !.exists = FALSE, !.old_date = NoDate]

----------------------------------------------------------------------------
(* Results and log entries *)

Ok(changed) == [ok |-> TRUE, changed |-> changed, err |-> "", at |-> 0]

Err(e, k) == [ok |-> FALSE, changed |-> FALSE, err |-> e, at |-> k]

NoResult == [ok |-> FALSE, changed |-> FALSE, err |-> "pending", at |-> 0]

Status(kind, v) == [kind |-> kind, ver |-> v]

NoStatus == Status("none", NoVersion)

Returned(ok, st, e, k) == [ok |-> ok, status |-> st, err |-> e, at |-> k]

NoReturn == Returned(FALSE, NoStatus, "pending", 0)

Step(op, arg, ok) == [k |-> "step", op |-> op, arg |-> arg, ok |-> ok]

Notify(ev) == [k |-> "notify", op |-> ev, arg |-> 0, ok |-> TRUE]

NoTx == [open |-> FALSE, staged |-> << >>, committed |-> FALSE]

NoArgs == [called |-> 0, desc |-> "none", profile |-> "none", update_hash |-> FALSE,
           force_update |-> FALSE, allow_downgrade |-> FALSE, old_date |-> NoDate,
           components |-> << >>, targets |-> << >>]

NoLast == [m |-> NoMethod, ok |-> FALSE]

----------------------------------------------------------------------------
(* Collaborators, by their contracts.  Each gives the set of outcomes the
   call can have. *)

(* utils::remove_dir: recursive removal; nothing to do on a missing path *)
RemoveDir(p) ==
    IF Exists(p)
    THEN { [ok |-> TRUE, path |-> Absent], [ok |-> FALSE, path |-> p] }
    ELSE { [ok |-> TRUE, path |-> p] }

(* utils::copy_dir *)
CopyDir(src, p) ==
    { [ok |-> TRUE, path |-> CopyOf(src)], [ok |-> FALSE, path |-> p] }

(* utils::symlink_dir *)
SymlinkDir(src, p) ==
    { [ok |-> TRUE, path |-> LinkTo(src)], [ok |-> FALSE, path |-> p] }

(* utils::write_file *)
WriteFile(file, contents) ==
    { [ok |-> TRUE, file |-> contents], [ok |-> FALSE, file |-> file] }

(* Components::open, FileReaderWithProgress::new_file, TarGzPackage::new *)
OpenPackage == BOOLEAN

(* Transaction::new *)
TransactionNew == [open |-> TRUE, staged |-> << >>, committed |-> FALSE]

(* Package::install: stages the component in the transaction it returns *)
PackageInstall(t, c) ==
    { [ok |-> TRUE, tx |-> [t EXCEPT !.staged = Append(@, c)]],
      [ok |-> FALSE, tx |-> NoTx] }

(* Transaction::commit: the staged components become the content of the path *)
Commit(t) == Installed(t.staged)

(* dist::update_from_dist: the policy of the updater *)
UpdateDecision(prior_hash, force_update, allow_downgrade, old_date, rem) ==
    IF ~allow_downgrade /\ old_date # NoDate /\ Date(rem) < old_date
    THEN "unchanged"
    ELSE IF prior_hash = rem /\ ~force_update
         THEN "unchanged"
         ELSE "apply"

(* dist::update_from_dist: Err, Ok(None) or Ok(Some(hash)) with the prefix updated *)
UpdateFromDist(prior_hash, force_update, allow_downgrade, old_date, rem, p) ==
    { [ok |-> FALSE, hash |-> NoHash, path |-> p] }
    \cup
    ( IF UpdateDecision(prior_hash, force_update, allow_downgrade, old_date, rem) = "apply"
      THEN { [ok |-> TRUE, hash |-> rem, path |-> DistState(rem)] }
      ELSE { [ok |-> TRUE, hash |-> NoHash, path |-> p] } )

----------------------------------------------------------------------------
(* Initial state: nothing installed, no hash recorded *)

Init ==
    /\ path = Absent
    /\ hashFile = NoHash
    /\ remote \in Hashes
    /\ pc = "idle"
    /\ call = [op |-> "none", m |-> NoMethod]
    /\ previous_version = NoVersion
    /\ run_result = NoResult
    /\ result = NoReturn
    /\ tx = NoTx
    /\ idx = 0
    /\ dist_args = NoArgs
    /\ log = << >>
    /\ pre = Absent
    /\ preHash = NoHash
    /\ last = NoLast
    /\ repeat = FALSE
    /\ onlyDist = TRUE
    /\ applied = NoHash
    /\ recorded = NoHash

----------------------------------------------------------------------------
(* InstallMethod::install, up to the call of run *)

install(m) ==
    /\ pc = "idle"
    /\ LET pv == IF Exists(path) THEN RustcVersion(path) ELSE NoVersion
       IN /\ previous_version' = pv
          /\ log' = << Notify(IF pv # NoVersion THEN "UpdatingToolchain"
                                                ELSE "InstallingToolchain"),
                       Notify("ToolchainDirectory") >>
    /\ call' = [op |-> "install", m |-> m]
    /\ pc' = "run"
    /\ pre' = path
    /\ preHash' = hashFile
    /\ repeat' = (last.ok /\ Request(last.m) = Request(m))
    /\ onlyDist' = (onlyDist /\ m.kind = "Dist" /\ m.update_hash)
    /\ run_result' = NoResult
    /\ result' = NoReturn
    /\ UNCHANGED << path, hashFile, remote, tx, idx, dist_args, last, applied, recorded >>

(* the pre-step sparing Dist only *)
PreClears_onlyDist(m) == m.kind # "Dist"

(* run: which variants have the existing path removed first *)
PreClears(m) == m.kind \notin {"Dist", "Installer"}

(* run: the pre-step *)
run_preclear ==
    /\ pc = "run"
    /\ IF Exists(path) /\ PreClears(call.m)
       THEN \E r \in RemoveDir(path) :
              /\ path' = r.path
              /\ log' = Append(log, Step("remove", 0, r.ok))
              /\ IF r.ok
                 THEN /\ pc' = "dispatch"
                      /\ UNCHANGED run_result
                 ELSE /\ pc' = "ret"
                      /\ run_result' = Err("PathRemovalFailed", 0)
       ELSE /\ pc' = "dispatch"
            /\ UNCHANGED << path, log, run_result >>
    /\ UNCHANGED << hashFile, remote, call, previous_version, result, tx, idx, dist_args,
                    pre, preHash, last, repeat, onlyDist, applied, recorded >>

(* run: the Copy arm *)
run_Copy ==
    /\ pc = "dispatch"
    /\ call.m.kind = "Copy"
    /\ \E r \in CopyDir(call.m.src, path) :
          /\ path' = r.path
          /\ log' = Append(log, Step("copy", call.m.src, r.ok))
          /\ run_result' = IF r.ok THEN Ok(TRUE) ELSE Err("CopyFailed", 0)
    /\ pc' = "ret"
    /\ UNCHANGED << hashFile, remote, call, previous_version, result, tx, idx, dist_args,
                    pre, preHash, last, repeat, onlyDist, applied, recorded >>

(* the Link arm reporting no change *)
run_Link_unchanged ==
    /\ pc = "dispatch"
    /\ call.m.kind = "Link"
    /\ \E r \in SymlinkDir(call.m.src, path) :
          /\ path' = r.path
          /\ log' = Append(log, Step("symlink", call.m.src, r.ok))
          /\ run_result' = IF r.ok THEN Ok(FALSE) ELSE Err("SymlinkFailed", 0)
    /\ pc' = "ret"
    /\ UNCHANGED << hashFile, remote, call, previous_version, result, tx, idx, dist_args,
                    pre, preHash, last, repeat, onlyDist, applied, recorded >>

(* run: the Link arm *)
run_Link ==
    /\ pc = "dispatch"
    /\ call.m.kind = "Link"
    /\ \E r \in SymlinkDir(call.m.src, path) :
          /\ path' = r.path
          /\ log' = Append(log, Step("symlink", call.m.src, r.ok))
          /\ run_result' = IF r.ok THEN Ok(TRUE) ELSE Err("SymlinkFailed", 0)
    /\ pc' = "ret"
    /\ UNCHANGED << hashFile, remote, call, previous_version, result, tx, idx, dist_args,
                    pre, preHash, last, repeat, onlyDist, applied, recorded >>

(* tar_gz going on to the transaction although the archive did not open *)
tar_gz_open_continue ==
    /\ pc = "dispatch"
    /\ call.m.kind = "Installer"
    /\ \E ok \in OpenPackage :
          /\ log' = log \o << Notify("Extracting"), Step("open", 0, ok),
                              Step("tx_new", 0, TRUE) >>
          /\ tx' = TransactionNew
          /\ idx' = 1
          /\ pc' = "components"
          /\ UNCHANGED run_result
    /\ UNCHANGED << path, hashFile, remote, call, previous_version, result, dist_args,
                    pre, preHash, last, repeat, onlyDist, applied, recorded >>

(* tar_gz: from the Extracting notification to Transaction::new *)
tar_gz_open ==
    /\ pc = "dispatch"
    /\ call.m.kind = "Installer"
    /\ \E ok \in OpenPackage :
          /\ log' = log \o << Notify("Extracting"), Step("open", 0, ok) >>
                        \o (IF ok THEN << Step("tx_new", 0, TRUE) >> ELSE << >>)
          /\ IF ok
             THEN /\ tx' = TransactionNew
                  /\ idx' = 1
                  /\ pc' = "components"
                  /\ UNCHANGED run_result
             ELSE /\ pc' = "ret"
                  /\ run_result' = Err("ArchiveReadFailed", 0)
                  /\ UNCHANGED << tx, idx >>
    /\ UNCHANGED << path, hashFile, remote, call, previous_version, result, dist_args,
                    pre, preHash, last, repeat, onlyDist, applied, recorded >>

(* tar_gz with the error of package.install swallowed: the loop goes on *)
tar_gz_install_swallow ==
    /\ pc = "components"
    /\ idx <= Len(call.m.pkg)
    /\ LET c == call.m.pkg[idx]
       IN \E r \in PackageInstall(tx, c) :
             /\ log' = Append(log, Step("install", c, r.ok))
             /\ tx' = IF r.ok THEN r.tx ELSE tx
             /\ idx' = idx + 1
             /\ UNCHANGED << pc, run_result >>
    /\ UNCHANGED << path, hashFile, remote, call, previous_version, result, dist_args,
                    pre, preHash, last, repeat, onlyDist, applied, recorded >>

(* tar_gz: one iteration of the loop over package.components() *)
tar_gz_install ==
    /\ pc = "components"
    /\ idx <= Len(call.m.pkg)
    /\ LET c == call.m.pkg[idx]
       IN \E r \in PackageInstall(tx, c) :
             /\ log' = Append(log, Step("install", c, r.ok))
             /\ tx' = r.tx
             /\ IF r.ok
                THEN /\ idx' = idx + 1
                     /\ UNCHANGED << pc, run_result >>
                ELSE /\ idx' = 0
                     /\ pc' = "ret"
                     /\ run_result' = Err("ComponentInstallFailed", c)
    /\ UNCHANGED << path, hashFile, remote, call, previous_version, result, dist_args,
                    pre, preHash, last, repeat, onlyDist, applied, recorded >>

(* tar_gz committing one iteration early *)
tar_gz_commit_early ==
    /\ pc = "components"
    /\ idx >= Len(call.m.pkg)
    /\ path' = Commit(tx)
    /\ tx' = [tx EXCEPT !.open = FALSE, !.committed = TRUE]
    /\ idx' = 0
    /\ log' = Append(log, Step("commit", 0, TRUE))
    /\ run_result' = Ok(TRUE)
    /\ pc' = "ret"
    /\ UNCHANGED << hashFile, remote, call, previous_version, result, dist_args,
                    pre, preHash, last, repeat, onlyDist, applied, recorded >>

(* tar_gz: tx.commit() after the loop, and run's Ok(true) *)
tar_gz_commit ==
    /\ pc = "components"
    /\ idx > Len(call.m.pkg)
    /\ path' = Commit(tx)
    /\ tx' = [tx EXCEPT !.open = FALSE, !.committed = TRUE]
    /\ idx' = 0
    /\ log' = Append(log, Step("commit", 0, TRUE))
    /\ run_result' = Ok(TRUE)
    /\ pc' = "ret"
    /\ UNCHANGED << hashFile, remote, call, previous_version, result, dist_args,
                    pre, preHash, last, repeat, onlyDist, applied, recorded >>

(* the profile passed whether or not the toolchain exists *)
passed_profile_always(exists, profile) == profile

(* run: the Dist arm passes the profile only if the toolchain does not exist *)
passed_profile(exists, profile) == IF exists THEN "none" ELSE profile

(* the arguments with the two flags in each other's place *)
updater_args_swapped(m) ==
    [called |-> 1, desc |-> m.desc, profile |-> passed_profile(m.exists, m.profile),
     update_hash |-> m.update_hash, force_update |-> m.allow_downgrade,
     allow_downgrade |-> m.force_update, old_date |-> m.old_date,
     components |-> m.components, targets |-> m.targets]

(* run: the arguments of the one call of update_from_dist *)
updater_args(m) ==
    [called |-> 1, desc |-> m.desc, profile |-> passed_profile(m.exists, m.profile),
     update_hash |-> m.update_hash, force_update |-> m.force_update,
     allow_downgrade |-> m.allow_downgrade, old_date |-> m.old_date,
     components |-> m.components, targets |-> m.targets]

(* the Dist arm reporting a change whatever the updater returned *)
changed_always(maybe_new_hash) == TRUE

(* run: the Dist arm reports a change exactly when a new hash came back *)
changed(maybe_new_hash) == maybe_new_hash # NoHash

(* the Dist arm writing the hash file whether or not a path was given *)
writes_hash_nopath(maybe_new_hash, update_hash) == maybe_new_hash # NoHash

(* the Dist arm writing the hash file only on a fresh install *)
writes_hash_fresh(maybe_new_hash, update_hash) ==
    maybe_new_hash # NoHash /\ update_hash /\ hashFile = NoHash

(* run: the Dist arm writes the hash file when a new hash came back and a
   hash file was given *)
writes_hash(maybe_new_hash, update_hash) == maybe_new_hash # NoHash /\ update_hash

(* run: the Dist arm *)
run_Dist ==
    /\ pc = "dispatch"
    /\ call.m.kind = "Dist"
    /\ LET m == call.m
           a == updater_args(m)
           prior_hash == IF a.update_hash THEN hashFile ELSE NoHash
       IN /\ dist_args' = [a EXCEPT !.called = dist_args.called + a.called]
          /\ \E u \in UpdateFromDist(prior_hash, a.force_update, a.allow_downgrade,
                                     a.old_date, remote, path) :
                /\ path' = u.path
                /\ applied' = IF u.ok /\ u.hash # NoHash THEN u.hash ELSE applied
                /\ IF ~u.ok
                   THEN /\ log' = Append(log, Step("updater", 0, FALSE))
                        /\ run_result' = Err("DistResolutionFailed", 0)
                        /\ UNCHANGED hashFile
                   ELSE IF writes_hash(u.hash, m.update_hash)
                   THEN \E w \in WriteFile(hashFile, u.hash) :
                          /\ hashFile' = w.file
                          /\ log' = log \o << Step("updater", u.hash, TRUE),
                                              Step("write_hash", u.hash, w.ok) >>
                          /\ run_result' = IF w.ok THEN Ok(changed(u.hash))
                                           ELSE Err("HashFilePersistFailed", 0)
                   ELSE /\ log' = Append(log, Step("updater", u.hash, TRUE))
                        /\ run_result' = Ok(changed(u.hash))
                        /\ UNCHANGED hashFile
    /\ pc' = "ret"
    /\ UNCHANGED << remote, call, previous_version, result, tx, idx,
                    pre, preHash, last, repeat, onlyDist, recorded >>

(* status with the prior version deciding before `updated` does *)
status_swapped(updated, pv) ==
    IF pv = NoVersion
    THEN IF updated THEN Status("Installed", NoVersion)
                    ELSE Status("Unchanged", NoVersion)
    ELSE Status("Updated", pv)

(* install: the status derived from (updated, previous_version) *)
status(updated, pv) ==
    IF updated
    THEN IF pv = NoVersion THEN Status("Installed", NoVersion)
                           ELSE Status("Updated", pv)
    ELSE Status("Unchanged", NoVersion)

(* install announcing the installed toolchain before it looks at the error *)
install_finish_announce ==
    /\ pc = "ret"
    /\ IF ~run_result.ok
       THEN /\ result' = Returned(FALSE, NoStatus, run_result.err, run_result.at)
            /\ log' = Append(log, Notify("InstalledToolchain"))
       ELSE LET updated == run_result.changed
            IN /\ log' = Append(log, Notify(IF ~updated THEN "UpdateHashMatches"
                                                         ELSE "InstalledToolchain"))
               /\ result' = Returned(TRUE, status(updated, previous_version), "", 0)
    /\ pc' = "done"
    /\ recorded' = IF run_result.ok /\ run_result.changed /\ call.m.kind = "Dist"
                   THEN applied ELSE recorded
    /\ UNCHANGED << path, hashFile, remote, call, previous_version, run_result, tx, idx,
                    dist_args, pre, preHash, last, repeat, onlyDist, applied >>

(* InstallMethod::install, from the return of run *)
install_finish ==
    /\ pc = "ret"
    /\ IF ~run_result.ok
       THEN /\ result' = Returned(FALSE, NoStatus, run_result.err, run_result.at)
            /\ UNCHANGED log
       ELSE LET updated == run_result.changed
            IN /\ log' = Append(log, Notify(IF ~updated THEN "UpdateHashMatches"
                                                         ELSE "InstalledToolchain"))
               /\ result' = Returned(TRUE, status(updated, previous_version), "", 0)
    /\ pc' = "done"
    /\ recorded' = IF run_result.ok /\ run_result.changed /\ call.m.kind = "Dist"
                   THEN applied ELSE recorded
    /\ UNCHANGED << path, hashFile, remote, call, previous_version, run_result, tx, idx,
                    dist_args, pre, preHash, last, repeat, onlyDist, applied >>

(* uninstall that reports a missing path as an error *)
uninstall_strict ==
    /\ pc = "idle"
    /\ \E r \in RemoveDir(path) :
          /\ path' = r.path
          /\ log' = << Step("remove", 0, r.ok /\ Exists(path)) >>
          /\ result' = IF r.ok /\ Exists(path)
                       THEN Returned(TRUE, NoStatus, "", 0)
                       ELSE Returned(FALSE, NoStatus, "PathRemovalFailed", 0)
    /\ call' = [op |-> "uninstall", m |-> NoMethod]
    /\ pc' = "done"
    /\ pre' = path
    /\ preHash' = hashFile
    /\ repeat' = FALSE
    /\ onlyDist' = FALSE
    /\ UNCHANGED << hashFile, remote, previous_version, run_result, tx, idx, dist_args,
                    last, applied, recorded >>

(* uninstall, called by itself *)
uninstall ==
    /\ pc = "idle"
    /\ \E r \in RemoveDir(path) :
          /\ path' = r.path
          /\ log' = << Step("remove", 0, r.ok) >>
          /\ result' = IF r.ok THEN Returned(TRUE, NoStatus, "", 0)
                               ELSE Returned(FALSE, NoStatus, "PathRemovalFailed", 0)
    /\ call' = [op |-> "uninstall", m |-> NoMethod]
    /\ pc' = "done"
    /\ pre' = path
    /\ preHash' = hashFile
    /\ repeat' = FALSE
    /\ onlyDist' = FALSE
    /\ UNCHANGED << hashFile, remote, previous_version, run_result, tx, idx, dist_args,
                    last, applied, recorded >>

(* The call returns to the caller *)
Return ==
    /\ pc = "done"
    /\ pc' = "idle"
    /\ last' = IF call.op = "install" /\ result.ok
               THEN [m |-> call.m, ok |-> TRUE] ELSE NoLast
    /\ call' = [op |-> "none", m |-> NoMethod]
    /\ previous_version' = NoVersion
    /\ run_result' = NoResult
    /\ result' = NoReturn
    /\ tx' = NoTx
    /\ idx' = 0
    /\ dist_args' = NoArgs
    /\ log' = << >>
    /\ pre' = Absent
    /\ preHash' = NoHash
    /\ repeat' = FALSE
    /\ UNCHANGED << path, hashFile, remote, onlyDist, applied, recorded >>

(* The channel publishes another state *)
RemoteChange ==
    /\ pc = "idle"
    /\ \E h \in Hashes \ {remote} : remote' = h
    /\ last' = NoLast
    /\ UNCHANGED << path, hashFile, pc, call, previous_version, run_result, result, tx, idx,
                    dist_args, log, pre, preHash, repeat, onlyDist, applied, recorded >>

Begin == \E m \in Methods(path) : install(m)

Next ==
    \/ Begin
    \/ run_preclear
    \/ run_Copy
    \/ run_Link
    \/ tar_gz_open
    \/ tar_gz_install
    \/ tar_gz_commit
    \/ run_Dist
    \/ install_finish
    \/ uninstall
    \/ Return
    \/ RemoteChange

Spec == Init /\ [][Next]_vars

----------------------------------------------------------------------------
(* Reading the log of the call in progress *)

Steps(op) == { i \in DOMAIN log : log[i].k = "step" /\ log[i].op = op }

Failed(op) == { i \in Steps(op) : ~log[i].ok }

Installing == call.op = "install"

Kind == call.m.kind

AtReturn == pc \in {"ret", "done"}

(* The state the method is asked to bring the path to *)
Target(m) ==
    CASE m.kind = "Copy" -> CopyOf(m.src)
      [] m.kind = "Link" -> LinkTo(m.src)
      [] m.kind = "Installer" -> Installed(m.pkg)
      [] m.kind = "Dist" -> DistState(remote)
      [] OTHER -> Absent

----------------------------------------------------------------------------
(* C1: when install/run has returned, the target path is in its pre-install
   state or in the fully installed requested state, whatever step failed. *)
C1_AllOrNothing ==
    (pc = "done" /\ Installing) => path \in {pre, Target(call.m)}

(* C2: when the install of a component fails in an Installer run, commit is
   never invoked, run returns that error, and the target path is absent or in
   its pre-install state. *)
C2_FailedComponentNeverCommitted ==
    (AtReturn /\ Installing /\ Kind = "Installer" /\ Failed("install") # {}) =>
        /\ ~tx.committed
        /\ Steps("commit") = {}
        /\ \E i \in Failed("install") :
              run_result = Err("ComponentInstallFailed", log[i].arg)
        /\ pc = "done" =>
              /\ ~result.ok
              /\ result.err = run_result.err
              /\ result.at = run_result.at
        /\ path \in {Absent, pre}

C2_Witness ==
    /\ pc = "done"
    /\ Kind = "Installer"
    /\ \E i \in Failed("install") : \E j \in Steps("install") : j < i /\ log[j].ok
    /\ Exists(pre)

(* C3: the status of a successful install is decided by (changed,
   prior version) alone, the prior version being the one found at the path
   before the run: Installed, Updated(V) or Unchanged, nothing else. *)
C3_StatusFromChangedAndPrior ==
    (pc = "done" /\ Installing /\ result.ok) =>
        /\ run_result.ok
        /\ result.status =
              IF ~run_result.changed THEN Status("Unchanged", NoVersion)
              ELSE IF ~Exists(pre) THEN Status("Installed", NoVersion)
              ELSE Status("Updated", RustcVersion(pre))
        /\ result.status.kind \in {"Installed", "Updated", "Unchanged"}

C3_Witness ==
    /\ pc = "done"
    /\ Installing
    /\ result.ok
    /\ result.status.kind = "Updated"
    /\ result.status.ver # RustcVersion(path)

(* C4: uninstall of a target path that does not exist returns no error and
   changes nothing. *)
C4_UninstallMissingIsNoOp ==
    (pc = "done" /\ call.op = "uninstall" /\ ~Exists(pre)) =>
        /\ result.ok
        /\ path = pre
        /\ hashFile = preHash

C4_Witness ==
    /\ pc = "done"
    /\ call.op = "uninstall"
    /\ ~Exists(pre)
    /\ result.ok
    /\ hashFile # NoHash

(* C5: a successful install into a target path where no toolchain exists
   returns Installed, whatever the method. *)
C5_FreshInstallIsInstalled ==
    (pc = "done" /\ Installing /\ result.ok /\ ~Exists(pre)) =>
        result.status.kind = "Installed"

(* C6: the same Dist install run twice in a row against an unchanged remote
   state with force_update = false: the second run returns Unchanged and
   leaves the hash file as the first run left it, whether or not a hash file
   path was supplied. *)
C6_RepeatedDistIsUnchanged ==
    (pc = "done" /\ Installing /\ Kind = "Dist" /\ repeat /\ ~call.m.force_update
       /\ result.ok) =>
        /\ result.status.kind = "Unchanged"
        /\ hashFile = preHash

(* C7: when the updater signals no change, run reports changed = false, the
   hash file is not written, the target path is neither written nor removed,
   and install returns Unchanged. *)
UpdaterSaidNoChange ==
    \E i \in Steps("updater") : log[i].ok /\ log[i].arg = NoHash

C7_NoChangeWritesNothing ==
    (AtReturn /\ Installing /\ UpdaterSaidNoChange) =>
        /\ run_result = Ok(FALSE)
        /\ hashFile = preHash
        /\ Steps("write_hash") = {}
        /\ Steps("remove") = {}
        /\ path = pre
        /\ pc = "done" =>
              /\ result.ok
              /\ result.status = Status("Unchanged", NoVersion)

C7_Witness ==
    /\ pc = "done"
    /\ Installing
    /\ UpdaterSaidNoChange
    /\ Exists(pre)
    /\ hashFile = remote
    /\ call.m.update_hash

(* C8: after any sequence of Dist installs, whatever their outcome, the hash
   file holds the fingerprint of the last Dist state the updater applied to
   the path. *)
C8_HashFileIsLastApplied ==
    (pc = "idle" /\ onlyDist) => hashFile = applied

(* C8, amended: after any sequence of Dist installs naming the hash file,
   whatever their outcome, the hash file holds the fingerprint applied by the
   last run that returned changed = true; a run that returns changed = true
   has written its new hash and every other run leaves the file untouched. *)
C8_HashFileIsLastRecorded ==
    /\ (pc \in {"idle", "done"} /\ onlyDist) => hashFile = recorded
    /\ (AtReturn /\ Installing /\ Kind = "Dist" /\ call.m.update_hash) =>
          IF run_result.ok /\ run_result.changed
          THEN hashFile = applied /\ hashFile = remote /\ Steps("write_hash") # {}
          ELSE hashFile = preHash

C8_Witness ==
    /\ pc = "done"
    /\ onlyDist
    /\ result.ok
    /\ result.status.kind = "Updated"
    /\ preHash # NoHash
    /\ hashFile # preHash

(* C9: a successful Copy or Link run returns changed = true and install
   returns Installed or Updated, never Unchanged, whatever the path held. *)
C9_CopyLinkAlwaysChange ==
    (AtReturn /\ Installing /\ Kind \in {"Copy", "Link"} /\ run_result.ok) =>
        /\ run_result.changed
        /\ pc = "done" =>
              /\ result.ok
              /\ result.status.kind \in {"Installed", "Updated"}

C9_Witness ==
    /\ pc = "done"
    /\ Kind \in {"Copy", "Link"}
    /\ result.ok
    /\ Exists(pre)
    /\ path = pre

(* C10: when the target path exists at the start of the run, Copy and Link
   remove it before the copy or symlink step, Dist and Installer never remove
   it, and a failed removal makes run return the error with no copy, symlink,
   extraction or updater step executed. *)
VariantSteps ==
    Steps("copy") \cup Steps("symlink") \cup Steps("open") \cup Steps("tx_new")
    \cup Steps("install") \cup Steps("commit") \cup Steps("updater")
    \cup Steps("write_hash")

C10_PreClearOrdering ==
    Installing =>
        /\ (Kind \in {"Copy", "Link"} /\ Exists(pre)) =>
              /\ pc # "run" => Steps("remove") # {}
              /\ \A i \in VariantSteps :
                    \E j \in Steps("remove") : j < i /\ log[j].ok
        /\ Kind \in {"Dist", "Installer"} =>
              /\ Steps("remove") = {}
              /\ (pc \in {"run", "dispatch"} => path = pre)
        /\ Failed("remove") # {} =>
              /\ VariantSteps = {}
              /\ AtReturn
              /\ run_result = Err("PathRemovalFailed", 0)
              /\ pc = "done" => (~result.ok /\ result.err = "PathRemovalFailed")

C10_Witness ==
    /\ pc = "done"
    /\ Kind = "Link"
    /\ Exists(pre)
    /\ \E j \in Steps("remove") : \E i \in Steps("symlink") : j < i /\ log[j].ok
    /\ result.ok

(* C11: in a Dist run the updater receives the profile exactly when the
   toolchain did not exist when install was called, and no profile when it
   did. *)
C11_ProfileOnlyForFreshInstall ==
    (AtReturn /\ Installing /\ Kind = "Dist") =>
        /\ dist_args.called > 0
        /\ ~Exists(pre) => dist_args.profile = call.m.profile
        /\ Exists(pre) => dist_args.profile = "none"
        /\ call.m.profile # "none"

C11_Witness ==
    /\ pc = "done"
    /\ Kind = "Dist"
    /\ Exists(pre)
    /\ pre.kind # "dist"
    /\ dist_args.profile = "none"
    /\ result.ok

(* C12: one install call notifies, in this order: updating-toolchain if a
   prior version exists, else installing-toolchain; the toolchain directory;
   the events of run; then hash-matches if changed = false, else
   installed-toolchain.  When run returns an error neither final event is
   emitted and the error reaches the caller unchanged. *)
OpeningEvents == {"UpdatingToolchain", "InstallingToolchain", "ToolchainDirectory"}

FinalEvents == {"UpdateHashMatches", "InstalledToolchain"}

Notified(evs) == { i \in DOMAIN log : log[i].k = "notify" /\ log[i].op \in evs }

C12_NotificationOrder ==
    Installing =>
        /\ Len(log) >= 2
        /\ log[1] = Notify(IF Exists(pre) THEN "UpdatingToolchain"
                                          ELSE "InstallingToolchain")
        /\ log[2] = Notify("ToolchainDirectory")
        /\ Notified(OpeningEvents) = {1, 2}
        /\ \A i \in Notified(FinalEvents) :
              /\ pc = "done"
              /\ i = Len(log)
              /\ run_result.ok
              /\ log[i].op = IF run_result.changed THEN "InstalledToolchain"
                                                   ELSE "UpdateHashMatches"
        /\ pc = "done" =>
              IF run_result.ok
              THEN /\ result.ok
                   /\ Cardinality(Notified(FinalEvents)) = 1
              ELSE /\ Notified(FinalEvents) = {}
                   /\ result = Returned(FALSE, NoStatus, run_result.err, run_result.at)

C12_Witness ==
    /\ pc = "done"
    /\ Installing
    /\ ~result.ok
    /\ Exists(pre)
    /\ Len(log) > 3

(* C13: a successful Installer run installs every component of the package
   exactly once, in the order the package declares, threading the transaction
   from one call to the next; commit is invoked once, after the last
   component is staged; run reports changed = true, also for a package with
   no components. *)
IsInstallStep(e) == e.k = "step" /\ e.op = "install"

InstallSteps == SelectSeq(log, IsInstallStep)

C13_InstallerStagesAllThenCommits ==
    (Installing /\ Kind = "Installer") =>
        /\ pc = "components" =>
              /\ tx.open
              /\ tx.staged = SubSeq(call.m.pkg, 1, idx - 1)
              /\ Steps("commit") = {}
        /\ Steps("commit") # {} => (AtReturn /\ run_result.ok)
        /\ (AtReturn /\ run_result.ok) =>
              /\ Len(InstallSteps) = Len(call.m.pkg)
              /\ \A i \in DOMAIN InstallSteps :
                    InstallSteps[i].arg = call.m.pkg[i] /\ InstallSteps[i].ok
              /\ Cardinality(Steps("commit")) = 1
              /\ Cardinality(Steps("tx_new")) = 1
              /\ \A c \in Steps("commit") : \A i \in Steps("install") : i < c
              /\ \A t \in Steps("tx_new") : \A i \in Steps("install") : t < i
              /\ tx.committed
              /\ tx.staged = call.m.pkg
              /\ path = Installed(call.m.pkg)
              /\ run_result = Ok(TRUE)

C13_Witness ==
    /\ pc = "done"
    /\ Installing
    /\ Kind = "Installer"
    /\ result.ok
    /\ Len(call.m.pkg) >= 2
    /\ call.m.pkg[1] > call.m.pkg[2]

(* C14: run is fail-fast: the first failing step ends the call with that
   error and no later step executes.  A failing updater is never followed by
   a hash-file write, a failing archive open by no transaction created or
   committed, and a failing hash-file write makes run return an error, so
   that install emits no installed-toolchain event and returns no status. *)
ErrorOf(op) ==
    CASE op = "remove" -> "PathRemovalFailed"
      [] op = "copy" -> "CopyFailed"
      [] op = "symlink" -> "SymlinkFailed"
      [] op = "open" -> "ArchiveReadFailed"
      [] op = "install" -> "ComponentInstallFailed"
      [] op = "updater" -> "DistResolutionFailed"
      [] op = "write_hash" -> "HashFilePersistFailed"
      [] OTHER -> "unknown"

FailedSteps == { i \in DOMAIN log : log[i].k = "step" /\ ~log[i].ok }

C14_FailFast ==
    Installing =>
        /\ \A i \in FailedSteps :
              /\ i = Len(log)
              /\ AtReturn
              /\ run_result = Err(ErrorOf(log[i].op),
                                  IF log[i].op = "install" THEN log[i].arg ELSE 0)
              /\ pc = "done" =>
                    result = Returned(FALSE, NoStatus, run_result.err, run_result.at)
        /\ (AtReturn /\ ~run_result.ok) => FailedSteps # {}
        /\ Failed("updater") # {} => (Steps("write_hash") = {} /\ hashFile = preHash)
        /\ Failed("open") # {} =>
              (Steps("tx_new") = {} /\ Steps("commit") = {} /\ tx = NoTx /\ path = pre)
        /\ Failed("write_hash") # {} =>
              /\ ~run_result.ok
              /\ Notified({"InstalledToolchain"}) = {}
              /\ pc = "done" => (~result.ok /\ result.status = NoStatus)

C14_Witness ==
    /\ pc = "done"
    /\ Installing
    /\ Failed("write_hash") # {}
    /\ path # pre
    /\ ~result.ok

(* C15: each run executes the steps of its own variant only: Copy, Link and
   Installer runs never invoke the updater and never write the hash file;
   Dist runs never copy, symlink, open a transaction or remove the target
   path; the hash file is written only by a Dist run in which the updater
   returned a new hash and a hash file path was supplied. *)
OwnSteps(kind) ==
    CASE kind = "Copy" -> {"remove", "copy"}
      [] kind = "Link" -> {"remove", "symlink"}
      [] kind = "Installer" -> {"open", "tx_new", "install", "commit"}
      [] kind = "Dist" -> {"updater", "write_hash"}
      [] OTHER -> {}

C15_OneStrategyPerRun ==
    Installing =>
        /\ \A i \in DOMAIN log : log[i].k = "step" => log[i].op \in OwnSteps(Kind)
        /\ Notified({"Extracting"}) # {} => Kind = "Installer"
        /\ Kind # "Dist" => (dist_args = NoArgs /\ hashFile = preHash)
        /\ Kind # "Installer" => tx = NoTx
        /\ Kind = "Dist" => (path \in {pre, DistState(remote)})
        /\ \A w \in Steps("write_hash") :
              /\ Kind = "Dist"
              /\ call.m.update_hash
              /\ \E u \in Steps("updater") :
                    u < w /\ log[u].ok /\ log[u].arg # NoHash /\ log[u].arg = log[w].arg
        /\ hashFile # preHash => Steps("write_hash") # {}

C15_Witness ==
    /\ pc = "done"
    /\ Kind = "Dist"
    /\ ~call.m.update_hash
    /\ run_result.ok
    /\ run_result.changed
    /\ preHash # NoHash
    /\ hashFile = preHash
    /\ path # pre

(* C16: a Dist run invokes the updater exactly once, with force_update,
   allow_downgrade, old_date, the descriptor, the hash path, the components
   and the targets of the variant unmodified; whatever those flags are, run
   reports changed = true exactly when the updater returned a new hash. *)
ReturnedNewHash == \E u \in Steps("updater") : log[u].ok /\ log[u].arg # NoHash

C16_UpdaterCalledOnceWithFields ==
    (AtReturn /\ Installing /\ Kind = "Dist") =>
        /\ dist_args.called = 1
        /\ Cardinality(Steps("updater")) = 1
        /\ dist_args.force_update = call.m.force_update
        /\ dist_args.allow_downgrade = call.m.allow_downgrade
        /\ dist_args.old_date = call.m.old_date
        /\ dist_args.desc = call.m.desc
        /\ dist_args.update_hash = call.m.update_hash
        /\ dist_args.components = call.m.components
        /\ dist_args.targets = call.m.targets
        /\ run_result.ok => (run_result.changed <=> ReturnedNewHash)
        /\ ReturnedNewHash =>
              run_result \in {Ok(TRUE), Err("HashFilePersistFailed", 0)}

C16_Witness ==
    /\ pc = "done"
    /\ Kind = "Dist"
    /\ call.m.force_update
    /\ ~call.m.allow_downgrade
    /\ call.m.old_date # NoDate
    /\ call.m.components # << >>
    /\ call.m.targets # call.m.components
    /\ preHash = remote
    /\ call.m.update_hash
    /\ result.ok
    /\ run_result.changed

====
